---- MODULE Spec2Model ----
(***************************************************************************)
(* Model of RustyTerminAI (src/main.rs): a shell fallback handler that     *)
(* probes whether a command exists and, when it does not, asks one of two  *)
(* LLM providers (xAI, OpenRouter) for a suggestion.                       *)
(*                                                                         *)
(* One run of the process is the record `run`; everything the process      *)
(* reads from outside (arguments, PATH, environment variables, the reply   *)
(* of the network) is the record `env`, fixed when the process starts.     *)
(* Every step of main.rs is an operator from (env, run) to the next run,   *)
(* and an action applies it.                                               *)
(***************************************************************************)
EXTENDS Integers, Sequences, FiniteSets, TLC

VARIABLES env, run

vars == <<env, run>>

(***************************************************************************)
(* Bounds of the explored inputs.                                          *)
(***************************************************************************)
MaxArgs == 2
MaxStrLen == 1

(***************************************************************************)
(* Strings the program computes on (arguments, the command) are sequences  *)
(* of one-character strings; texts it only prints or sends are TLA+        *)
(* strings, built with \o.                                                 *)
(***************************************************************************)
Chars == {"g", " "}

IsWhitespace(c) == c = " "

StringsUpTo(n) == UNION {[1..k -> Chars] : k \in 0..n}

ArgLists == UNION {[1..k -> StringsUpTo(MaxStrLen)] : k \in 0..MaxArgs}

RECURSIVE Str(_)
Str(s) == IF s = <<>> THEN "" ELSE Head(s) \o Str(Tail(s))

\* Vec<String>::join(" ")
RECURSIVE Join(_)
Join(a) ==
    IF a = <<>> THEN <<>>
    ELSE IF Len(a) = 1 THEN a[1]
    ELSE a[1] \o <<" ">> \o Join(Tail(a))

\* str::split_whitespace().next(): the first maximal run of non-whitespace
RECURSIVE SkipWhitespace(_)
SkipWhitespace(s) ==
    IF s # <<>> /\ IsWhitespace(Head(s)) THEN SkipWhitespace(Tail(s)) ELSE s

RECURSIVE TakeToken(_)
TakeToken(s) ==
    IF s = <<>> \/ IsWhitespace(Head(s)) THEN <<>>
    ELSE <<Head(s)>> \o TakeToken(Tail(s))

None == [some |-> FALSE]
Some(v) == [some |-> TRUE, val |-> v]

FirstToken(s) ==
    LET rest == SkipWhitespace(s)
    IN  IF rest = <<>> THEN None ELSE Some(TakeToken(rest))

Ok(v) == [ok |-> TRUE, val |-> v]
Err(m) == [ok |-> FALSE, val |-> m]

(***************************************************************************)
(* serde_json::Value, its Index implementations and as_str.                *)
(***************************************************************************)
JNull == [tag |-> "null"]
JStr(s) == [tag |-> "string", s |-> s]
JNum(n) == [tag |-> "number", n |-> n]
JArr(xs) == [tag |-> "array", items |-> xs]
JObj(f) == [tag |-> "object", fields |-> f]

\* value["key"]: Null unless value is an object that has the key
IndexKey(v, k) ==
    IF v.tag = "object" /\ k \in DOMAIN v.fields THEN v.fields[k] ELSE JNull

\* value[i], i counted from 0: Null unless value is an array longer than i
IndexPos(v, i) ==
    IF v.tag = "array" /\ i < Len(v.items) THEN v.items[i + 1] ELSE JNull

as_str(v) == IF v.tag = "string" THEN Some(v.s) ELSE None

unwrap_or(o, d) == IF o.some THEN o.val ELSE d

(***************************************************************************)
(* The environment of one run.                                             *)
(***************************************************************************)
Unset == [set |-> FALSE]
SetTo(v) == [set |-> TRUE, val |-> v]

\* std::env::var: Err when the variable is not set (a value that is not
\* Unicode is an Err as well, and takes the same branches as an unset one)
env_var(e, name) == IF e.vars[name].set THEN Ok(e.vars[name].val) ELSE Err("NotPresent")

ProviderValues == {Unset, SetTo("xai"), SetTo("openrouter"), SetTo("OpenRouter")}

\* a key that cannot be an HTTP header value (it holds a line feed)
KeyValues == {Unset, SetTo("sk-live"), SetTo("sk-\n")}

ValidHeaderValue(s) == s \notin {"Bearer sk-\n"}

\* what `which` can find
PathSets == SUBSET {<<"g">>}

Message(c) == JObj([message |-> JObj([content |-> c])])

\* replies of a provider: one choice, two choices, a content that is not a
\* string, no choice, an error object, and the JSON document null
Docs == {
    JObj([choices |-> JArr(<<Message(JStr("try ls -la"))>>)]),
    JObj([choices |-> JArr(<<Message(JStr(" git status ")), Message(JStr("second"))>>)]),
    JObj([choices |-> JArr(<<Message(JNum(7))>>)]),
    JObj([choices |-> JArr(<<>>)]),
    JObj([error |-> JStr("internal error")]),
    JNull }

Bodies == {[kind |-> "garbage"]} \cup {[kind |-> "json", doc |-> d] : d \in Docs}

Replies ==
    {[transport |-> "failed"]}
    \cup {[transport |-> "ok", status |-> s, body |-> b] : s \in {200, 500}, b \in Bodies}

Envs ==
    {[args |-> a, whichSpawns |-> w, onPath |-> p,
      vars |-> [API_PROVIDER |-> pv, XAI_API_KEY |-> xk, OPENROUTER_API_KEY |-> ok],
      reply |-> rp] :
        a \in ArgLists, w \in BOOLEAN, p \in PathSets, pv \in ProviderValues,
        xk \in KeyValues, ok \in KeyValues, rp \in Replies}

(***************************************************************************)
(* The state of the process.                                               *)
(***************************************************************************)
InitRun ==
    [pc |-> "start", command |-> <<>>, api_key |-> "", response |-> [status |-> 0],
     result |-> Ok(""), stdout |-> <<>>, stderr |-> <<>>, exitCode |-> -1,
     probes |-> <<>>, reads |-> <<>>, clients |-> <<>>, posts |-> <<>>,
     trace |-> <<>>]

println(r, line) == [r EXCEPT !.stdout = Append(@, line)]
eprintln(r, line) == [r EXCEPT !.stderr = Append(@, line)]
Did(r, step) == [r EXCEPT !.trace = Append(@, step)]

\* std::process::exit(code), and the return from main (code 0)
exit(r, code) == [Did(r, "exit") EXCEPT !.pc = "exited", !.exitCode = code]

\* variant: no check for an empty argument list
main_args_unchecked(e, r) ==
    [Did(r, "args") EXCEPT !.command = Join(e.args), !.pc = "probe"]

(***************************************************************************)
(* main, lines 14-18: the arguments after the program name.                *)
(***************************************************************************)
main_args(e, r) ==
    IF e.args = <<>>
    THEN exit(eprintln(Did(r, "args"), "No command provided"), 1)
    ELSE [Did(r, "args") EXCEPT !.command = Join(e.args), !.pc = "probe"]

(***************************************************************************)
(* is_command_valid: `which <first token>` succeeds; a `which` that cannot *)
(* be spawned counts as not valid.                                         *)
(***************************************************************************)
ProbedToken(command) == unwrap_or(FirstToken(command), command)

is_command_valid(e, command) ==
    e.whichSpawns /\ ProbedToken(command) \in e.onPath

\* variant: the valid branch prints but does not exit
main_probe_no_exit(e, r) ==
    LET p == [Did(r, "probe") EXCEPT !.probes = Append(@, ProbedToken(r.command))]
    IN  IF is_command_valid(e, r.command)
        THEN [println(p, "Command '" \o Str(r.command) \o "' exists, executing normally.")
                EXCEPT !.pc = "select"]
        ELSE [p EXCEPT !.pc = "select"]

\* main, lines 23-26
main_probe(e, r) ==
    LET p == [Did(r, "probe") EXCEPT !.probes = Append(@, ProbedToken(r.command))]
    IN  IF is_command_valid(e, r.command)
        THEN exit(println(p, "Command '" \o Str(r.command) \o "' exists, executing normally."), 0)
        ELSE [p EXCEPT !.pc = "select"]

(***************************************************************************)
(* main, lines 29-33: the provider is "openrouter" only for that exact     *)
(* value of API_PROVIDER; unset or anything else is xAI.                   *)
(***************************************************************************)
api_provider(e) ==
    LET v == env_var(e, "API_PROVIDER") IN IF v.ok THEN v.val ELSE "xai"

SelectedClient(e) ==
    IF api_provider(e) = "openrouter" THEN "query_openrouter_api" ELSE "query_xai_api"

\* variant: the provider name is matched without regard to case
main_select_nocase(e, r) ==
    LET s == [Did(r, "select") EXCEPT !.reads = Append(@, "API_PROVIDER")]
    IN  IF api_provider(e) \in {"openrouter", "OpenRouter"}
        THEN [s EXCEPT !.pc = "openrouter_key", !.clients = Append(@, "query_openrouter_api")]
        ELSE [s EXCEPT !.pc = "xai_key", !.clients = Append(@, "query_xai_api")]

main_select(e, r) ==
    LET s == [Did(r, "select") EXCEPT !.reads = Append(@, "API_PROVIDER")]
    IN  IF SelectedClient(e) = "query_openrouter_api"
        THEN [s EXCEPT !.pc = "openrouter_key", !.clients = Append(@, "query_openrouter_api")]
        ELSE [s EXCEPT !.pc = "xai_key", !.clients = Append(@, "query_xai_api")]

(***************************************************************************)
(* What both clients share: the prompt, sending one request, and taking    *)
(* the suggestion out of the reply.                                        *)
(***************************************************************************)
Context(command) ==
    "User entered an unrecognized command: '" \o Str(command)
        \o "'. Provide a helpful suggestion or explanation."

XaiUrl == "https://api.x.ai/v1/grok"
OpenRouterUrl == "https://openrouter.ai/api/v1/chat/completions"

\* RequestBuilder::send: a header that could not be built fails the request
\* before anything is sent; otherwise one POST leaves, and it either fails
\* in transport or brings a response, whatever its status.
send(e, r, request, next) ==
    IF ~ValidHeaderValue(request.authorization)
    THEN [Did(r, "send") EXCEPT !.result = Err("builder error"), !.pc = "report"]
    ELSE LET p == [Did(r, "post") EXCEPT !.posts = Append(@, request)]
         IN  IF e.reply.transport = "failed"
             THEN [p EXCEPT !.result = Err("error sending request"), !.pc = "report"]
             ELSE [p EXCEPT !.response = [status |-> e.reply.status, body |-> e.reply.body],
                            !.pc = next]

\* Response::json::<Value>: any JSON document parses, at any status
response_json(response) ==
    IF response.body.kind = "json" THEN Ok(response.body.doc)
    ELSE Err("error decoding response body")

\* variant: the last choice instead of the first
SuggestionLastChoice(json) ==
    LET choices == IndexKey(json, "choices")
        last == IF choices.tag = "array" /\ choices.items # <<>>
                THEN Len(choices.items) - 1 ELSE 0
    IN  unwrap_or(as_str(IndexKey(IndexKey(IndexPos(choices, last), "message"), "content")),
                  "No suggestion available")

\* json["choices"][0]["message"]["content"].as_str().unwrap_or(...)
Suggestion(json) ==
    unwrap_or(as_str(IndexKey(IndexKey(IndexPos(IndexKey(json, "choices"), 0),
                                       "message"), "content")),
              "No suggestion available")

(***************************************************************************)
(* query_xai_api                                                           *)
(***************************************************************************)
query_xai_key(e, r) ==
    LET k == env_var(e, "XAI_API_KEY")
        s == [Did(r, "key") EXCEPT !.reads = Append(@, "XAI_API_KEY")]
    IN  IF k.ok THEN [s EXCEPT !.api_key = k.val, !.pc = "xai_send"]
        ELSE exit(eprintln(s, "XAI_API_KEY environment variable not set"), 1)

XaiRequest(r) ==
    [url |-> XaiUrl, authorization |-> "Bearer " \o r.api_key,
     headers |-> {},
     payload |-> [model |-> "grok-3", shape |-> "prompt", text |-> Context(r.command)]]

query_xai_send(e, r) == send(e, r, XaiRequest(r), "xai_parse")

\* variant: a reply without a suggestion is an error
query_xai_parse_strict(e, r) ==
    LET j == response_json(r.response)
        c == IF j.ok
             THEN as_str(IndexKey(IndexKey(IndexPos(IndexKey(j.val, "choices"), 0),
                                           "message"), "content"))
             ELSE None
    IN  IF j.ok /\ c.some
        THEN [Did(r, "parse") EXCEPT !.result = Ok(c.val), !.pc = "report"]
        ELSE [Did(r, "parse") EXCEPT !.result = Err("no suggestion in the reply"),
                                     !.pc = "report"]

query_xai_parse(e, r) ==
    LET j == response_json(r.response)
    IN  IF j.ok
        THEN [Did(r, "parse") EXCEPT !.result = Ok(Suggestion(j.val)), !.pc = "report"]
        ELSE [Did(r, "parse") EXCEPT !.result = j, !.pc = "report"]

(***************************************************************************)
(* query_openrouter_api                                                    *)
(***************************************************************************)
\* variant: a missing key is an empty key
query_openrouter_key_default(e, r) ==
    LET k == env_var(e, "OPENROUTER_API_KEY")
        s == [Did(r, "key") EXCEPT !.reads = Append(@, "OPENROUTER_API_KEY")]
    IN  [s EXCEPT !.api_key = IF k.ok THEN k.val ELSE "", !.pc = "openrouter_send"]

\* variant: a missing key is returned as an error instead of exiting
query_openrouter_key_typed(e, r) ==
    LET k == env_var(e, "OPENROUTER_API_KEY")
        s == [Did(r, "key") EXCEPT !.reads = Append(@, "OPENROUTER_API_KEY")]
    IN  IF k.ok THEN [s EXCEPT !.api_key = k.val, !.pc = "openrouter_send"]
        ELSE [s EXCEPT !.result = Err("OPENROUTER_API_KEY environment variable not set"),
                       !.pc = "report"]

query_openrouter_key(e, r) ==
    LET k == env_var(e, "OPENROUTER_API_KEY")
        s == [Did(r, "key") EXCEPT !.reads = Append(@, "OPENROUTER_API_KEY")]
    IN  IF k.ok THEN [s EXCEPT !.api_key = k.val, !.pc = "openrouter_send"]
        ELSE exit(eprintln(s, "OPENROUTER_API_KEY environment variable not set"), 1)

OpenRouterRequest(r) ==
    [url |-> OpenRouterUrl, authorization |-> "Bearer " \o r.api_key,
     headers |-> {"HTTP-Referer", "X-Title"},
     payload |-> [model |-> "meta-ai/llama-3.1-8b-instruct", shape |-> "messages",
                  text |-> Context(r.command)]]

query_openrouter_send(e, r) == send(e, r, OpenRouterRequest(r), "openrouter_parse")

query_openrouter_parse(e, r) ==
    LET j == response_json(r.response)
    IN  IF j.ok
        THEN [Did(r, "parse") EXCEPT !.result = Ok(Suggestion(j.val)), !.pc = "report"]
        ELSE [Did(r, "parse") EXCEPT !.result = j, !.pc = "report"]

(***************************************************************************)
(* main, lines 35-48: the suggestion goes to standard output, followed by  *)
(* the elapsed time on standard error and the return from main; an error   *)
(* goes to standard error and the process exits with 1.  The elapsed time  *)
(* is printed as a fixed text: nothing depends on its value.               *)
(***************************************************************************)
\* variant: after an error the other provider is tried once
main_report_fallback(e, r) ==
    IF r.result.ok
    THEN exit(eprintln(println(Did(r, "print"), r.result.val), "Processing time: _"), 0)
    ELSE IF Len(r.clients) = 1
    THEN IF r.clients[1] = "query_xai_api"
         THEN [Did(r, "error") EXCEPT !.pc = "openrouter_key",
                                      !.clients = Append(@, "query_openrouter_api")]
         ELSE [Did(r, "error") EXCEPT !.pc = "xai_key",
                                      !.clients = Append(@, "query_xai_api")]
    ELSE exit(eprintln(Did(r, "error"), "Error querying API: " \o r.result.val), 1)

\* variant: the error is printed but the process does not exit with 1
main_report_no_exit(e, r) ==
    IF r.result.ok
    THEN exit(eprintln(println(Did(r, "print"), r.result.val), "Processing time: _"), 0)
    ELSE exit(eprintln(eprintln(Did(r, "error"), "Error querying API: " \o r.result.val),
                       "Processing time: _"), 0)

main_report(e, r) ==
    IF r.result.ok
    THEN exit(eprintln(println(Did(r, "print"), r.result.val), "Processing time: _"), 0)
    ELSE exit(eprintln(Did(r, "error"), "Error querying API: " \o r.result.val), 1)

(***************************************************************************)
(* The state machine.                                                      *)
(***************************************************************************)
Init == env \in Envs /\ run = InitRun

MainArgs == run.pc = "start" /\ run' = main_args(env, run) /\ UNCHANGED env
MainProbe == run.pc = "probe" /\ run' = main_probe(env, run) /\ UNCHANGED env
MainSelect == run.pc = "select" /\ run' = main_select(env, run) /\ UNCHANGED env
QueryXaiKey == run.pc = "xai_key" /\ run' = query_xai_key(env, run) /\ UNCHANGED env
QueryXaiSend == run.pc = "xai_send" /\ run' = query_xai_send(env, run) /\ UNCHANGED env
QueryXaiParse == run.pc = "xai_parse" /\ run' = query_xai_parse(env, run) /\ UNCHANGED env
QueryOpenRouterKey ==
    run.pc = "openrouter_key" /\ run' = query_openrouter_key(env, run) /\ UNCHANGED env
QueryOpenRouterSend ==
    run.pc = "openrouter_send" /\ run' = query_openrouter_send(env, run) /\ UNCHANGED env
QueryOpenRouterParse ==
    run.pc = "openrouter_parse" /\ run' = query_openrouter_parse(env, run) /\ UNCHANGED env
MainReport == run.pc = "report" /\ run' = main_report(env, run) /\ UNCHANGED env

Next ==
    \/ MainArgs
    \/ MainProbe
    \/ MainSelect
    \/ QueryXaiKey
    \/ QueryXaiSend
    \/ QueryXaiParse
    \/ QueryOpenRouterKey
    \/ QueryOpenRouterSend
    \/ QueryOpenRouterParse
    \/ MainReport

Spec == Init /\ [][Next]_vars

TypeOK ==
    /\ run.pc \in {"start", "probe", "select", "xai_key", "xai_send", "xai_parse",
                   "openrouter_key", "openrouter_send", "openrouter_parse",
                   "report", "exited"}
    /\ run.exitCode \in {-1, 0, 1}
    /\ (run.pc = "exited") = (run.exitCode # -1)

(***************************************************************************)
(* One whole run as a function of its environment: the step the process    *)
(* takes at each position, applied until it has exited.                    *)
(***************************************************************************)
Step(e, r) ==
    CASE r.pc = "start" -> main_args(e, r)
      [] r.pc = "probe" -> main_probe(e, r)
      [] r.pc = "select" -> main_select(e, r)
      [] r.pc = "xai_key" -> query_xai_key(e, r)
      [] r.pc = "xai_send" -> query_xai_send(e, r)
      [] r.pc = "xai_parse" -> query_xai_parse(e, r)
      [] r.pc = "openrouter_key" -> query_openrouter_key(e, r)
      [] r.pc = "openrouter_send" -> query_openrouter_send(e, r)
      [] r.pc = "openrouter_parse" -> query_openrouter_parse(e, r)
      [] r.pc = "report" -> main_report(e, r)
      [] OTHER -> r

RECURSIVE Final(_, _)
Final(e, r) == IF r.pc = "exited" THEN r ELSE Final(e, Step(e, r))

(***************************************************************************)
(* Vocabulary of the properties.                                           *)
(***************************************************************************)
Exited == run.pc = "exited"

EmptyInvocation == env.args = <<>>

\* the first token of the command is found by `which`
Resolves ==
    /\ env.args # <<>>
    /\ env.whichSpawns
    /\ \E t \in env.onPath : FirstToken(Join(env.args)) = Some(t)

DoesNotResolve == env.args # <<>> /\ ~Resolves

\* the provider API_PROVIDER stands for, its endpoint and its key
ConfiguredOpenRouter == env.vars.API_PROVIDER = SetTo("openrouter")

ConfiguredUrl == IF ConfiguredOpenRouter THEN OpenRouterUrl ELSE XaiUrl

ConfiguredKey ==
    IF ConfiguredOpenRouter THEN env.vars.OPENROUTER_API_KEY ELSE env.vars.XAI_API_KEY

KeyMissing == ~ConfiguredKey.set

KeyUsable == ConfiguredKey.set /\ ConfiguredKey.val = "sk-live"

\* the one request got a response
Replied == Len(run.posts) = 1 /\ env.reply.transport = "ok"

RepliedJson == Replied /\ env.reply.body.kind = "json"

\* choices[0].message.content of a document is a string
HasContent(d) ==
    /\ d.tag = "object" /\ "choices" \in DOMAIN d.fields
    /\ d.fields.choices.tag = "array" /\ Len(d.fields.choices.items) >= 1
    /\ LET c == d.fields.choices.items[1]
       IN  /\ c.tag = "object" /\ "message" \in DOMAIN c.fields
           /\ c.fields.message.tag = "object"
           /\ "content" \in DOMAIN c.fields.message.fields
           /\ c.fields.message.fields.content.tag = "string"

ContentOf(d) == d.fields.choices.items[1].fields.message.fields.content.s

Placeholder == "No suggestion available"

(***************************************************************************)
(* C1: when the first token of a non-empty command resolves, the run makes *)
(* no network call, reads no provider or key setting, goes no further than *)
(* the probe, and exits with status 0, whatever the configuration is.      *)
(***************************************************************************)
C1_ValidCommandPassesThrough ==
    Resolves =>
        /\ run.posts = <<>> /\ run.reads = <<>> /\ run.clients = <<>>
        /\ run.pc \in {"start", "probe", "exited"}
        /\ Exited => run.exitCode = 0 /\ Len(run.stdout) = 1

C1_Witness ==
    /\ Resolves /\ Exited /\ run.exitCode = 0
    /\ ConfiguredOpenRouter /\ KeyMissing /\ Len(run.probes) = 1

(***************************************************************************)
(* C2, as claimed: every run of a command that does not resolve ends with  *)
(* exactly one POST, to the endpoint of the configured provider.           *)
(***************************************************************************)
C2_ExactlyOnePostAlways ==
    (DoesNotResolve /\ Exited) =>
        Len(run.posts) = 1 /\ run.posts[1].url = ConfiguredUrl

(***************************************************************************)
(* C2, amended: a run of a command that does not resolve makes at most one *)
(* POST, only to the endpoint of the configured provider; it ends with     *)
(* exactly one when that provider's key is set and usable as a header, and *)
(* with none otherwise.                                                    *)
(***************************************************************************)
C2_OnePostWhenKeyUsable ==
    DoesNotResolve =>
        /\ Len(run.posts) <= 1
        /\ \A i \in 1..Len(run.posts) : run.posts[i].url = ConfiguredUrl
        /\ Exited => Len(run.posts) = (IF KeyUsable THEN 1 ELSE 0)

C2_Witness ==
    /\ DoesNotResolve /\ Exited /\ KeyUsable
    /\ env.vars.API_PROVIDER = SetTo("OpenRouter")
    /\ Len(run.posts) = 1 /\ run.posts[1].url = XaiUrl

(***************************************************************************)
(* C3: an empty invocation reports "No command provided" on standard       *)
(* error, probes nothing, calls nothing and exits with a non-zero status.  *)
(***************************************************************************)
C3_EmptyInvocationRejected ==
    EmptyInvocation =>
        /\ run.probes = <<>> /\ run.posts = <<>> /\ run.clients = <<>>
        /\ run.pc \in {"start", "exited"}
        /\ Exited => /\ run.exitCode # 0
                     /\ run.stderr = <<"No command provided">>
                     /\ run.stdout = <<>>

C3_Witness == EmptyInvocation /\ Exited /\ run.exitCode = 1

(***************************************************************************)
(* C4: when the command does not resolve and the key of the configured     *)
(* provider is missing, for either provider no network call is made, the   *)
(* missing variable is reported on standard error, nothing is written to   *)
(* standard output and the run ends with a non-zero status.                *)
(***************************************************************************)
C4_MissingKeyAborts ==
    (DoesNotResolve /\ KeyMissing) =>
        /\ run.posts = <<>> /\ run.stdout = <<>>
        /\ run.pc \in {"start", "probe", "select", "xai_key", "openrouter_key", "exited"}
        /\ Exited =>
            /\ run.exitCode # 0
            /\ run.stderr = <<IF ConfiguredOpenRouter
                              THEN "OPENROUTER_API_KEY environment variable not set"
                              ELSE "XAI_API_KEY environment variable not set">>

C4_Witness ==
    /\ DoesNotResolve /\ KeyMissing /\ ConfiguredOpenRouter /\ Exited
    /\ env.vars.XAI_API_KEY.set /\ run.reads = <<"API_PROVIDER", "OPENROUTER_API_KEY">>

(***************************************************************************)
(* C5, as claimed: when the provider answers with a non-success status,    *)
(* whatever the body, the run exits non-zero with an error on standard     *)
(* error and prints no suggestion.                                         *)
(***************************************************************************)
C5_NonSuccessStatusIsAnError ==
    (Exited /\ Replied /\ env.reply.status \notin 200..299) =>
        run.exitCode # 0 /\ run.stdout = <<>> /\ run.stderr # <<>>

(***************************************************************************)
(* C6: whatever API_PROVIDER is, at most one client is invoked (exactly    *)
(* one once the provider is selected) and at most one request is sent;     *)
(* once a provider call has failed, the only step left reports the error   *)
(* and exits with 1: no client is invoked and no request sent after it.    *)
(***************************************************************************)
C6_OneProviderNoFallback ==
    /\ [](/\ Len(run.clients) <= 1
          /\ Len(run.posts) <= 1
          /\ run.pc \notin {"start", "probe", "select"} /\ DoesNotResolve
                => Len(run.clients) = 1
          /\ \A i \in 1..Len(run.posts) :
                run.posts[i].url = (IF run.clients[1] = "query_openrouter_api"
                                    THEN OpenRouterUrl ELSE XaiUrl))
    /\ [][~run.result.ok =>
              /\ run'.clients = run.clients /\ run'.posts = run.posts
              /\ run'.pc = "exited" /\ run'.exitCode = 1]_vars

C6_Witness ==
    /\ Exited /\ ~run.result.ok /\ Len(run.posts) = 1 /\ Len(run.clients) = 1
    /\ env.vars.XAI_API_KEY = SetTo("sk-live")
    /\ env.vars.OPENROUTER_API_KEY = SetTo("sk-live")

\* the environment of the run with the other provider, the keys exchanged
TwinEnv(e) ==
    [e EXCEPT !.vars = [API_PROVIDER |-> IF e.vars.API_PROVIDER = SetTo("openrouter")
                                         THEN SetTo("xai") ELSE SetTo("openrouter"),
                        XAI_API_KEY |-> e.vars.OPENROUTER_API_KEY,
                        OPENROUTER_API_KEY |-> e.vars.XAI_API_KEY]]

\* what two runs are compared on
Shape(r) ==
    [trace |-> r.trace, stdout |-> r.stdout, errLines |-> Len(r.stderr),
     exitCode |-> r.exitCode, posts |-> Len(r.posts), probes |-> r.probes,
     prompts |-> [i \in 1..Len(r.posts) |-> r.posts[i].payload.text],
     auth |-> [i \in 1..Len(r.posts) |-> r.posts[i].authorization]]

(***************************************************************************)
(* C7: the run with the other provider configured, and the two keys        *)
(* exchanged so that the key of the configured provider is the same, on    *)
(* the same command, search path and reply, goes through the same sequence *)
(* of steps, writes the same standard output, as many lines to standard    *)
(* error, sends as many requests (to the other endpoint) and ends with the *)
(* same exit status.                                                       *)
(***************************************************************************)
C7_ProvidersShareControlFlow ==
    Exited =>
        LET twin == Final(TwinEnv(env), InitRun)
        IN  /\ Shape(twin) = Shape(run)
            /\ twin.clients # run.clients \/ run.clients = <<>>
            /\ \A i \in 1..Len(run.posts) : twin.posts[i].url # run.posts[i].url

C7_Witness ==
    /\ Exited /\ DoesNotResolve /\ ~ConfiguredOpenRouter /\ KeyMissing
    /\ env.vars.OPENROUTER_API_KEY = SetTo("sk-live")
    /\ Final(TwinEnv(env), InitRun).clients = <<"query_openrouter_api">>

(***************************************************************************)
(* C8: when the reply is JSON whose choices[0].message.content is a string *)
(* s, the extracted suggestion is s itself, taken from the first choice    *)
(* and unaltered, and standard output holds exactly s, for both providers. *)
(***************************************************************************)
C8_ContentExtractedVerbatim ==
    (RepliedJson /\ HasContent(env.reply.body.doc)) =>
        /\ run.pc = "report" => run.result = Ok(ContentOf(env.reply.body.doc))
        /\ Exited => run.stdout = <<ContentOf(env.reply.body.doc)>>

C8_Witness ==
    /\ Exited /\ RepliedJson /\ ConfiguredOpenRouter
    /\ HasContent(env.reply.body.doc)
    /\ Len(env.reply.body.doc.fields.choices.items) = 2
    /\ run.stdout = <<" git status ">>

(***************************************************************************)
(* C9: when the reply parses as JSON but choices[0].message.content is     *)
(* absent or not a string, the suggestion is "No suggestion available",    *)
(* it is printed to standard output and the run exits with status 0, for   *)
(* both providers.                                                         *)
(***************************************************************************)
C9_MissingContentDegrades ==
    (RepliedJson /\ ~HasContent(env.reply.body.doc)) =>
        /\ run.pc = "report" => run.result = Ok(Placeholder)
        /\ Exited => run.stdout = <<Placeholder>> /\ run.exitCode = 0

C9_Witness ==
    /\ Exited /\ RepliedJson /\ ~ConfiguredOpenRouter
    /\ env.reply.body.doc = JObj([choices |-> JArr(<<Message(JNum(7))>>)])
    /\ run.stdout = <<Placeholder>> /\ run.exitCode = 0

TransportFailed == Len(run.posts) = 1 /\ env.reply.transport = "failed"

Unparseable == Replied /\ env.reply.body.kind # "json"

(***************************************************************************)
(* C10: a transport failure, or a reply body that is not JSON, reaches the *)
(* orchestrator as an error: it is written to standard error, nothing is   *)
(* written to standard output and the run exits with a non-zero status.    *)
(* A run exits with 0 only when the command resolved or a suggestion was   *)
(* printed to standard output.                                             *)
(***************************************************************************)
C10_ErrorsReportedAtCallBoundary ==
    /\ (TransportFailed \/ (Unparseable /\ run.pc # "xai_parse"
                                        /\ run.pc # "openrouter_parse")) =>
        /\ ~run.result.ok /\ run.stdout = <<>>
        /\ run.pc \in {"report", "exited"}
        /\ Exited => /\ run.exitCode # 0
                     /\ run.stderr = <<"Error querying API: " \o run.result.val>>
    /\ (Exited /\ run.exitCode = 0) =>
        \/ Resolves
        \/ Replied /\ run.result.ok /\ run.stdout = <<run.result.val>>

C10_Witness ==
    /\ Exited /\ Unparseable /\ run.exitCode = 1
    /\ run.stderr = <<"Error querying API: error decoding response body">>

====
